---------------------------- MODULE Spec2Model ----------------------------
(***************************************************************************)
(* Model of the bounded-forward market engine                              *)
(* (contracts/forward-market/src/lib.rs) and of the deployment factory     *)
(* (contracts/forward-factory/src/lib.rs).                                 *)
(*                                                                         *)
(* Every exported method is one atomic action (NEAR runs one receipt at a  *)
(* time per contract and reverts the receipt's writes when it panics).     *)
(* Cross-contract calls are promises: the calls a step issues are kept in  *)
(* `calls`, and the ones the engine gets an answer to (the price request   *)
(* and the transfer-with-message of create_position) stay in flight until  *)
(* a later step delivers them.                                             *)
(*                                                                         *)
(* Numbers are scaled to fit the checker's integers: u128 is modelled as   *)
(* an unsigned integer of Width bits and SCALE as 10^ScaleExp, keeping the *)
(* order  10000 < U128Max / SCALE  and  70 * SCALE < U128Max < 20 * SCALE^2 *)
(* of the program, where 2^128 - 1 is about 3.4e38 and SCALE is 1e24.      *)
(***************************************************************************)
EXTENDS Integers, Naturals, Sequences, FiniteSets, TLC

VARIABLES
    overflow_checks,      \* build profile: TRUE = arithmetic overflow panics, FALSE = wraps
    params,               \* ForwardMarket.params
    state,                \* ForwardMarket.state
    pending_actions,      \* ForwardMarket.pending_actions
    user_deposits,        \* ForwardMarket.user_deposits
    block_index,          \* env::block_index()
    block_timestamp,      \* env::block_timestamp()
    price_requests,       \* get_price promises whose on_price_received has not run yet
    ft_calls,             \* ft_transfer_call promises of create_position, not yet delivered
    calls,                \* the cross-contract calls issued by the last step
    last,                 \* the last method call: name, arguments, outcome
    finalizations,        \* history: number of runs of finalize_settlement
    settle_fee_records,   \* history: record_fee calls issued by finalize_settlement
    collateral_at_settlement, \* history: total_collateral right after the first finalization
    paid_out,             \* history: sum of the net payouts sent by redeem
    redeems,              \* history: number of accepted redeems
    mints,                \* history: number of reconciled mints
    accounting,           \* history: deposits absorbed, fees and payouts taken from them
    long_balances,        \* LongToken.token: balances of the long claim ledger
    short_balances,       \* balances of the short claim ledger
    markets,              \* ForwardFactory.markets
    markets_by_creator,   \* ForwardFactory.markets_by_creator
    all_market_keys,      \* ForwardFactory.all_market_keys
    market_code,          \* ForwardFactory.market_code
    long_token_code,      \* ForwardFactory.long_token_code
    short_token_code,     \* ForwardFactory.short_token_code
    paused,               \* ForwardFactory.paused
    deploy_counter,       \* ForwardFactory.deploy_counter
    chains,               \* promise chains of deploy_market that have not finished
    oracle,               \* ForwardFactory.oracle
    fee_collector,        \* ForwardFactory.fee_collector
    guardian              \* ForwardFactory.guardian

factory_vars == <<markets, markets_by_creator, all_market_keys, market_code,
                  long_token_code, short_token_code, paused, deploy_counter, chains,
                  oracle, fee_collector, guardian>>

ledger_vars == <<long_balances, short_balances>>

market_vars == <<overflow_checks, params, state, pending_actions, user_deposits,
                 price_requests, ft_calls, finalizations, settle_fee_records,
                 collateral_at_settlement, paid_out, redeems, mints, accounting,
                 ledger_vars>>

vars == <<market_vars, factory_vars, block_index, block_timestamp, calls, last>>

-----------------------------------------------------------------------------
(* Bounds of the model *)

Width == 24
ScaleExp == 3
MaxBlock == 1
MaxPriceRequests == 2
MaxFtCalls == 1
MaxRedeems == 1
MaxMints == 1
MaxDeploys == 2
MaxLargeMints == 2

(* Program constants *)

BPS_DENOMINATOR == 10000
MARKET_STORAGE == 10     \* 10 NEAR, in units of 10^24 yoctoNEAR
TOKEN_STORAGE == 5       \* 5 NEAR

U128Max == 2^Width - 1
SCALE == 10^ScaleExp

None == 0 - 1       \* Option::None of settlement_price / settlement_factor
PANIC == 0 - 2      \* the result of an arithmetic operation that panicked

-----------------------------------------------------------------------------
(* u128 arithmetic.  `a + b`, `a - b`, `a * b` on u128 panic on overflow   *)
(* when the crate is built with overflow checks and wrap modulo 2^128      *)
(* otherwise; the build profile is not part of the sources, so both are    *)
(* possible outcomes.  A panicked operand makes the result panicked.       *)

RECURSIVE MulWrap(_, _)
MulWrap(a, b) ==
    IF b = 0 THEN 0
    ELSE (((2 * MulWrap(a, b \div 2)) % (U128Max + 1)) + ((b % 2) * a)) % (U128Max + 1)

Add(a, b) ==
    IF a = PANIC \/ b = PANIC THEN PANIC
    ELSE IF a + b <= U128Max THEN a + b
    ELSE IF overflow_checks THEN PANIC
    ELSE (a + b) % (U128Max + 1)

Sub(a, b) ==
    IF a = PANIC \/ b = PANIC THEN PANIC
    ELSE IF b <= a THEN a - b
    ELSE IF overflow_checks THEN PANIC
    ELSE (a - b) + (U128Max + 1)

Mul(a, b) ==
    IF a = PANIC \/ b = PANIC THEN PANIC
    ELSE IF b = 0 \/ a <= U128Max \div b THEN a * b
    ELSE IF overflow_checks THEN PANIC
    ELSE MulWrap(a, b)

Div(a, b) ==
    IF a = PANIC \/ b = PANIC \/ b = 0 THEN PANIC ELSE a \div b

-----------------------------------------------------------------------------
(* Accounts *)

MARKET == "market.near"          \* env::current_account_id()
QUOTE == "usdc.near"             \* params.quote
UNDERLYING == "wrap.near"        \* params.underlying
OTHER_TOKEN == "other.near"      \* some fungible token that is not params.quote
OWNER == "owner.near"
GUARDIAN == "guardian.near"
LONG_TOKEN == "long.near"
SHORT_TOKEN == "short.near"
FEE_COLLECTOR == "fees.near"
ORACLE == "oracle.near"
Users == {"alice.near", "bob.near"}
Accounts == Users \cup {MARKET, OWNER, GUARDIAN}

(* Inputs *)

Maturities == {0, 1}
LowerBounds == {30 * SCALE, 60 * SCALE}
UpperBounds == {30 * SCALE, 70 * SCALE}
Strikes == {50 * SCALE}
MintFeeBps == {30, 20000}
SettleFeeBps == {50}
RedeemFeeBps == {20}
Prices == {30 * SCALE, 40 * SCALE, 50 * SCALE, 80 * SCALE}
Amounts == {0, 1, 500}

MarketParams ==
    [underlying : {UNDERLYING}, quote : {QUOTE}, maturity : Maturities,
     strike_k : Strikes, lower_bound_l : LowerBounds, upper_bound_u : UpperBounds,
     mint_fee_bps : MintFeeBps, settle_fee_bps : SettleFeeBps,
     redeem_fee_bps : RedeemFeeBps]

action_id(index) == <<"mint", index>>     \* format!("mint_{}", env::block_index())
Msgs == {action_id(i) : i \in 0..MaxBlock} \cup {<<"memo", 0>>}

EmptyMap == [k \in {} |-> 0]

Call(to, method, account, amount) ==
    [to |-> to, method |-> method, account |-> account, amount |-> amount]

-----------------------------------------------------------------------------
(* ForwardMarket::new *)

NewAcceptsWithoutStrikeCheck(p, now) ==
    /\ p.upper_bound_u > p.lower_bound_l
    /\ p.maturity > now

NewAccepts(p, now) ==
    /\ p.upper_bound_u > p.lower_bound_l
    /\ p.strike_k >= p.lower_bound_l
    /\ p.strike_k <= p.upper_bound_u
    /\ p.maturity > now

NewState ==
    [is_settled |-> FALSE, settlement_price |-> None, settlement_factor |-> None,
     total_collateral |-> 0, long_token_supply |-> 0, short_token_supply |-> 0,
     paused_mint |-> FALSE, paused_settle |-> FALSE]

(* ForwardFactory::new *)

FACTORY == "factory.near"        \* env::current_account_id() of the factory

NoAccounting == [deposited |-> 0, mint_fees |-> 0, settle_fees |-> 0, payouts |-> 0]

FactoryNew ==
    /\ markets = EmptyMap
    /\ markets_by_creator = [a \in Users |-> <<>>]
    /\ all_market_keys = <<>>
    /\ market_code = <<>>
    /\ long_token_code = <<>>
    /\ short_token_code = <<>>
    /\ paused = FALSE
    /\ deploy_counter = 0
    /\ chains = {}
    /\ oracle = ORACLE
    /\ fee_collector = FEE_COLLECTOR
    /\ guardian = GUARDIAN

Init ==
    /\ FactoryNew
    /\ overflow_checks \in BOOLEAN
    /\ block_index = 0
    /\ block_timestamp = 0
    /\ params \in {p \in MarketParams : NewAccepts(p, 0)}
    /\ state = NewState
    /\ pending_actions = EmptyMap
    /\ user_deposits = [a \in Accounts |-> 0]
    /\ price_requests = 0
    /\ ft_calls = <<>>
    /\ calls = {}
    /\ last = [op |-> "new", outcome |-> "ok"]
    /\ finalizations = 0
    /\ settle_fee_records = 0
    /\ collateral_at_settlement = None
    /\ paid_out = 0
    /\ redeems = 0
    /\ mints = 0
    /\ accounting = NoAccounting
    /\ long_balances = [a \in Accounts |-> 0]
    /\ short_balances = [a \in Accounts |-> 0]

-----------------------------------------------------------------------------
(* Pure functions *)

calculate_settlement_factor(price) ==
    LET l == params.lower_bound_l
        u == params.upper_bound_u
    IN  IF price <= l THEN 0
        ELSE IF price >= u THEN SCALE
        ELSE Div(Mul(Sub(price, l), SCALE), Sub(u, l))

calculate_payout(amount, settlement_factor, is_long) ==
    IF is_long
    THEN Div(Mul(amount, settlement_factor), SCALE)
    ELSE Div(Mul(amount, Sub(SCALE, settlement_factor)), SCALE)

FeeOf(amount, bps) == Div(Mul(amount, bps), BPS_DENOMINATOR)

-----------------------------------------------------------------------------
(* A call that panics (a failed require!, an overflow with overflow checks, *)
(* an expect on None) writes nothing and issues no promise.                 *)

Fails(rec) ==
    /\ last' = rec
    /\ calls' = {}
    /\ UNCHANGED <<factory_vars, ledger_vars, accounting, overflow_checks,
                   params, state, pending_actions, user_deposits,
                   block_index, block_timestamp, price_requests, ft_calls,
                   finalizations, settle_fee_records, collateral_at_settlement,
                   paid_out, redeems, mints>>

NewBlock ==
    /\ block_index < MaxBlock
    /\ block_index' = block_index + 1
    /\ block_timestamp' = block_timestamp + 1
    /\ calls' = {}
    /\ last' = [op |-> "block", outcome |-> "ok"]
    /\ UNCHANGED <<factory_vars, ledger_vars, accounting, overflow_checks,
                   params, state, pending_actions, user_deposits,
                   price_requests, ft_calls, finalizations, settle_fee_records,
                   collateral_at_settlement, paid_out, redeems, mints>>

-----------------------------------------------------------------------------
(* create_position *)

PutPending(table, tag, action) ==
    [t \in DOMAIN table \cup {tag} |-> IF t = tag THEN action ELSE table[t]]

CannotCreateIgnoringSettled(st, amount) ==
    st.paused_mint \/ ~(amount > 0)

CannotCreate(st, amount) ==
    st.paused_mint \/ st.is_settled \/ ~(amount > 0)

create_position(caller, amount) ==
    LET rec == [op |-> "create_position"]
    IN  IF CannotCreate(state, amount)
        THEN Fails(rec @@ [outcome |-> "rejected"])
        ELSE /\ Len(ft_calls) < MaxFtCalls
             /\ pending_actions' =
                    PutPending(pending_actions, action_id(block_index),
                               [account |-> caller, amount |-> amount,
                                action_type |-> "Mint"])
             \* ext_ft::ext(quote).ft_transfer_call(current_account_id(), amount, None,
             \* action_id): the engine is the caller of the token, so the token moves
             \* the engine's own balance and reports the engine as sender_id.
             /\ ft_calls' = Append(ft_calls, [sender_id |-> MARKET, receiver_id |-> MARKET,
                                              amount |-> amount,
                                              msg |-> action_id(block_index)])
             /\ calls' = {Call(QUOTE, "ft_transfer_call", MARKET, amount)}
             /\ last' = rec @@ [outcome |-> "ok"]
             /\ UNCHANGED <<factory_vars, ledger_vars, accounting, overflow_checks,
                   params, state, user_deposits, block_index,
                            block_timestamp, price_requests, finalizations,
                            settle_fee_records, collateral_at_settlement, paid_out,
                            redeems, mints>>

CreatePosition == \E caller \in {"alice.near"}, amount \in Amounts : create_position(caller, amount)

-----------------------------------------------------------------------------
(* ft_on_transfer *)

ActionMatchesAccountOnly(action, sender_id, amount) ==
    action.account = sender_id

ActionMatches(action, sender_id, amount) ==
    action.account = sender_id /\ action.amount = amount

AbsorbMintGrossShort(st, amount, fee) ==
    LET net_amount == Sub(amount, fee)
    IN  [st EXCEPT !.total_collateral = Add(@, net_amount),
                   !.long_token_supply = Add(@, net_amount),
                   !.short_token_supply = Add(@, amount)]

AbsorbMint(st, amount, fee) ==
    LET net_amount == Sub(amount, fee)
    IN  [st EXCEPT !.total_collateral = Add(@, net_amount),
                   !.long_token_supply = Add(@, net_amount),
                   !.short_token_supply = Add(@, net_amount)]

(* The claim ledgers (long-token; the short ledger is deployed from code of the *)
(* same interface).  mint and burn are for the market only; internal_deposit   *)
(* and internal_withdraw of the token standard panic for an account that is    *)
(* not registered, for a balance or total supply that would overflow and for a *)
(* balance that is too small.  A ledger call that panics changes nothing on    *)
(* the ledger and reverts nothing on the engine, which attaches no callback.   *)
(* The ledger runs a call of the engine right after the step that issued it.   *)

Registered == Users \cup {MARKET}     \* accounts with storage on both ledgers

RECURSIVE SumOver(_, _)
SumOver(balances, accounts) ==
    IF accounts = {} THEN 0
    ELSE LET a == CHOOSE x \in accounts : TRUE
         IN  balances[a] + SumOver(balances, accounts \ {a})

total_supply(balances) == SumOver(balances, DOMAIN balances)

assert_market(predecessor) == predecessor = MARKET

mint(predecessor, balances, account_id, amount) ==
    IF /\ assert_market(predecessor)
       /\ account_id \in Registered
       /\ balances[account_id] + amount <= U128Max
       /\ total_supply(balances) + amount <= U128Max
    THEN [balances EXCEPT ![account_id] = @ + amount]
    ELSE balances

burn(predecessor, balances, account_id, amount) ==
    IF /\ assert_market(predecessor)
       /\ account_id \in Registered
       /\ balances[account_id] >= amount
    THEN [balances EXCEPT ![account_id] = @ - amount]
    ELSE balances

MintCalls(sender_id, net_amount, fee) ==
    {Call(LONG_TOKEN, "mint", sender_id, net_amount),
     Call(SHORT_TOKEN, "mint", sender_id, net_amount)}
    \cup (IF fee > 0 THEN {Call(FEE_COLLECTOR, "record_fee", QUOTE, fee)} ELSE {})

KeepPending(table, tag) == table

RemovePending(table, tag) ==
    [t \in DOMAIN table \ {tag} |-> table[t]]

ft_on_transfer(predecessor, sender_id, amount, msg) ==
    LET rec == [op |-> "ft_on_transfer"]
        frame == <<factory_vars, overflow_checks, params, block_index, block_timestamp,
                   price_requests, finalizations, settle_fee_records,
                   collateral_at_settlement, paid_out, redeems>>
        unchanged == <<frame, state, pending_actions, user_deposits, mints, accounting,
                       ledger_vars>>
    IN  IF predecessor # params.quote
        THEN /\ last' = rec @@ [outcome |-> "rejected"]
             /\ calls' = {}
             /\ UNCHANGED unchanged
        ELSE IF /\ msg \in DOMAIN pending_actions
                /\ ActionMatches(pending_actions[msg], sender_id, amount)
                /\ pending_actions[msg].action_type = "Mint"
        THEN LET fee == FeeOf(amount, params.mint_fee_bps)
                 net_amount == Sub(amount, fee)
                 st == AbsorbMint(state, amount, fee)
                 deposit == Add(user_deposits[sender_id], net_amount)
             IN  IF PANIC \in {fee, net_amount, st.total_collateral,
                               st.long_token_supply, st.short_token_supply, deposit}
                 THEN /\ last' = rec @@ [outcome |-> "panic"]
                      /\ calls' = {}
                      /\ UNCHANGED unchanged
                 ELSE /\ mints' = mints + 1
                      /\ state' = st
                      /\ user_deposits' = [user_deposits EXCEPT ![sender_id] = deposit]
                      /\ pending_actions' = RemovePending(pending_actions, msg)
                      /\ calls' = MintCalls(sender_id, net_amount, fee)
                      /\ long_balances' = mint(MARKET, long_balances, sender_id, net_amount)
                      /\ short_balances' = mint(MARKET, short_balances, sender_id, net_amount)
                      /\ accounting' = [accounting EXCEPT !.deposited = @ + amount,
                                                          !.mint_fees = @ + fee]
                      /\ last' = rec @@ [outcome |-> "minted", unused |-> 0]
                      /\ UNCHANGED frame
        ELSE /\ last' = rec @@ [outcome |-> "refunded", unused |-> amount]
             /\ calls' = {}
             /\ UNCHANGED unchanged

(* A holder of the quote token calls quote.ft_transfer_call(market, amount, msg). *)
UserTransfer ==
    \E token \in {QUOTE, OTHER_TOKEN}, sender_id \in Users,
       amount \in Amounts \ {0}, msg \in Msgs :
        /\ ft_on_transfer(token, sender_id, amount, msg)
        /\ mints' <= MaxMints
        /\ UNCHANGED ft_calls

(* The quote token executes a transfer that create_position requested. *)
DeliverFtCall ==
    \E i \in 1..Len(ft_calls) :
        /\ ft_on_transfer(QUOTE, ft_calls[i].sender_id, ft_calls[i].amount,
                          ft_calls[i].msg)
        /\ mints' <= MaxMints
        /\ ft_calls' = SubSeq(ft_calls, 1, i - 1) \o SubSeq(ft_calls, i + 1, Len(ft_calls))

(* The quote token rejects a transfer that create_position requested. *)
FailFtCall ==
    \E i \in 1..Len(ft_calls) :
        /\ ft_calls' = SubSeq(ft_calls, 1, i - 1) \o SubSeq(ft_calls, i + 1, Len(ft_calls))
        /\ calls' = {}
        /\ last' = [op |-> "ft_transfer_call", outcome |-> "failed"]
        /\ UNCHANGED <<factory_vars, ledger_vars, accounting, overflow_checks,
                   params, state, pending_actions, user_deposits,
                       block_index, block_timestamp, price_requests, finalizations,
                       settle_fee_records, collateral_at_settlement, paid_out, redeems, mints>>

-----------------------------------------------------------------------------
(* redeem *)

RedeemCalls(account, long_amount, short_amount, fee, net_payout) ==
    (IF long_amount > 0 THEN {Call(LONG_TOKEN, "burn", account, long_amount)} ELSE {})
    \cup (IF short_amount > 0 THEN {Call(SHORT_TOKEN, "burn", account, short_amount)} ELSE {})
    \cup (IF fee > 0 THEN {Call(FEE_COLLECTOR, "record_fee", QUOTE, fee)} ELSE {})
    \cup {Call(QUOTE, "ft_transfer", account, net_payout)}

SufficientCollateral(net_payout, total_payout, total_collateral) ==
    net_payout <= total_collateral

redeem(account, long_amount, short_amount) ==
    LET rec == [op |-> "redeem"]
    IN  IF ~state.is_settled \/ ~(long_amount > 0 \/ short_amount > 0)
           \/ state.settlement_factor = None
        THEN Fails(rec @@ [outcome |-> "rejected"])
        ELSE LET long_payout == calculate_payout(long_amount, state.settlement_factor, TRUE)
                 short_payout == calculate_payout(short_amount, state.settlement_factor, FALSE)
                 total_payout == Add(long_payout, short_payout)
                 fee == FeeOf(total_payout, params.redeem_fee_bps)
                 net_payout == Sub(total_payout, fee)
             IN  IF PANIC \in {long_payout, short_payout, total_payout, fee, net_payout}
                 THEN Fails(rec @@ [outcome |-> "panic"])
                 ELSE IF ~SufficientCollateral(net_payout, total_payout,
                                               state.total_collateral)
                 THEN Fails(rec @@ [outcome |-> "rejected"])
                 ELSE LET remaining == Sub(state.total_collateral, total_payout)
                          info == [total_payout |-> total_payout,
                                   net_payout |-> net_payout]
                      IN  IF remaining = PANIC
                          THEN Fails(rec @@ info @@ [outcome |-> "panic"])
                          ELSE /\ redeems < MaxRedeems
                               /\ state' = [state EXCEPT !.total_collateral = remaining]
                               /\ calls' = RedeemCalls(account, long_amount, short_amount,
                                                       fee, net_payout)
                               /\ last' = rec @@ info @@ [outcome |-> "ok"]
                               /\ paid_out' = paid_out + net_payout
                               /\ redeems' = redeems + 1
                               /\ long_balances' =
                                      IF long_amount > 0
                                      THEN burn(MARKET, long_balances, account, long_amount)
                                      ELSE long_balances
                               /\ short_balances' =
                                      IF short_amount > 0
                                      THEN burn(MARKET, short_balances, account, short_amount)
                                      ELSE short_balances
                               /\ accounting' = [accounting EXCEPT !.payouts = @ + total_payout]
                               /\ UNCHANGED <<factory_vars, overflow_checks, params, pending_actions,
                                              user_deposits, block_index, block_timestamp,
                                              price_requests, ft_calls, finalizations,
                                              settle_fee_records, collateral_at_settlement,
                                              mints>>

Redeem ==
    \E account \in {"alice.near"}, long_amount \in Amounts, short_amount \in Amounts :
        redeem(account, long_amount, short_amount)

-----------------------------------------------------------------------------
(* settle, on_price_received, finalize_settlement *)

NotSettleableIgnoringMaturity(st, now) ==
    st.paused_settle \/ st.is_settled

(* The three require!s of settle: one of them fails. *)
NotSettleable(st, now) ==
    st.paused_settle \/ st.is_settled \/ ~(now >= params.maturity)

settle(caller) ==
    LET rec == [op |-> "settle"]
    IN  IF NotSettleable(state, block_timestamp)
        THEN Fails(rec @@ [outcome |-> "rejected"])
        ELSE /\ price_requests < MaxPriceRequests
             /\ price_requests' = price_requests + 1
             /\ calls' = {Call(ORACLE, "get_price", UNDERLYING, 0)}
             /\ last' = rec @@ [outcome |-> "ok"]
             /\ UNCHANGED <<factory_vars, ledger_vars, accounting, overflow_checks,
                   params, state, pending_actions,
                            user_deposits, block_index, block_timestamp, ft_calls,
                            finalizations, settle_fee_records,
                            collateral_at_settlement, paid_out, redeems, mints>>

Settle == \E caller \in {"alice.near"} : settle(caller)

(* The state finalize_settlement writes; a field is PANIC when its computation panicked. *)
finalize_settlement(st, price) ==
    LET settlement_factor == calculate_settlement_factor(price)
        fee == FeeOf(st.total_collateral, params.settle_fee_bps)
    IN  [st EXCEPT !.total_collateral = Sub(@, fee),
                   !.is_settled = TRUE,
                   !.settlement_price = price,
                   !.settlement_factor = settlement_factor]

(* env::promise_result(0) of the get_price call: the promise failed, its value is
   not an Option<PriceData>, it is None, or it is Some(price data). *)
PriceResults ==
    {<<"Failed", 0>>, <<"NotParsed", 0>>, <<"NoPrice", 0>>}
    \cup {<<"Price", p>> : p \in Prices}

on_price_received(result) ==
    LET rec == [op |-> "on_price_received", result |-> result]
        frame == <<factory_vars, ledger_vars, overflow_checks, params, pending_actions,
                   user_deposits, block_index, block_timestamp, ft_calls, paid_out,
                   redeems, mints>>
    IN  /\ price_requests > 0
        /\ price_requests' = price_requests - 1
        /\ IF result[1] # "Price"
           THEN /\ last' = rec @@ [outcome |-> "ok", returned |-> FALSE]
                /\ calls' = {}
                /\ UNCHANGED <<frame, state, finalizations, settle_fee_records,
                               collateral_at_settlement, accounting>>
           ELSE LET st == finalize_settlement(state, result[2])
                    fee == FeeOf(state.total_collateral, params.settle_fee_bps)
                IN  IF PANIC \in {fee, st.total_collateral, st.settlement_factor}
                    THEN /\ last' = rec @@ [outcome |-> "panic"]
                         /\ calls' = {}
                         /\ UNCHANGED <<frame, state, finalizations, settle_fee_records,
                                        collateral_at_settlement, accounting>>
                    ELSE /\ state' = st
                         /\ calls' = IF fee > 0
                                     THEN {Call(FEE_COLLECTOR, "record_fee", QUOTE, fee)}
                                     ELSE {}
                         /\ last' = rec @@ [outcome |-> "ok", returned |-> TRUE]
                         /\ accounting' = [accounting EXCEPT !.settle_fees = @ + fee]
                         /\ finalizations' = finalizations + 1
                         /\ settle_fee_records' =
                                settle_fee_records + (IF fee > 0 THEN 1 ELSE 0)
                         /\ collateral_at_settlement' =
                                IF state.is_settled THEN collateral_at_settlement
                                ELSE st.total_collateral
                         /\ UNCHANGED frame

OnPriceReceived == \E result \in PriceResults : on_price_received(result)

-----------------------------------------------------------------------------
(* set_paused *)

set_paused(caller, pause_mint, pause_settle) ==
    LET rec == [op |-> "set_paused", caller |-> caller]
    IN  IF ~(caller = GUARDIAN \/ caller = OWNER)
        THEN Fails(rec @@ [outcome |-> "rejected"])
        ELSE /\ state' = [state EXCEPT !.paused_mint = pause_mint,
                                       !.paused_settle = pause_settle]
             /\ calls' = {}
             /\ last' = rec @@ [outcome |-> "ok"]
             /\ UNCHANGED <<factory_vars, ledger_vars, accounting, overflow_checks,
                   params, pending_actions, user_deposits,
                            block_index, block_timestamp, price_requests, ft_calls,
                            finalizations, settle_fee_records,
                            collateral_at_settlement, paid_out, redeems, mints>>

SetPaused ==
    \E caller \in {OWNER, GUARDIAN, "alice.near"}, pause_mint \in BOOLEAN,
       pause_settle \in BOOLEAN :
        set_paused(caller, pause_mint, pause_settle)

-----------------------------------------------------------------------------
(* ForwardFactory: the registry of deployed markets.  A deploy_market call   *)
(* that is accepted launches a chain of four promises joined by `then`: the  *)
(* three creation batches (long ledger, short ledger, market engine) and the *)
(* callback on_market_deployed.  A promise joined by `then` is scheduled     *)
(* when its predecessor has finished, whether the predecessor succeeded or   *)
(* failed; the callback does not read env::promise_result.                   *)

Codes == {<<>>, <<1>>}           \* Vec<u8>: empty, or some contract code
(* The code triples set_contract_codes is called with: at most one blob empty. *)
CodeTriples ==
    {t \in Codes \X Codes \X Codes : Cardinality({i \in 1..3 : t[i] = <<>>}) <= 1}
Deposits == {MARKET_STORAGE + 2 * TOKEN_STORAGE - 1, MARKET_STORAGE + 2 * TOKEN_STORAGE}

(* Two requests that differ only in the mint fee, and one for another maturity *)
(* (a maturity the engine's constructor does not accept).                      *)
FactoryParams ==
    {p \in [underlying : {UNDERLYING}, quote : {QUOTE}, maturity : {0, 1},
            strike_k : {50 * SCALE}, lower_bound_l : {30 * SCALE},
            upper_bound_u : {70 * SCALE}, mint_fee_bps : {30, 40},
            settle_fee_bps : {50}, redeem_fee_bps : {20}] :
        p.maturity = 0 => p.mint_fee_bps = 30}

(* format!("{}:{}:{}:{}:{}:{}", ...): account ids hold no ':' and the numbers  *)
(* are printed in decimal, so the string is the tuple of the six fields.       *)
compute_market_key_with_fees(p) ==
    <<p.underlying, p.quote, p.maturity, p.strike_k, p.lower_bound_l,
      p.upper_bound_u, p.mint_fee_bps>>

compute_market_key(p) ==
    <<p.underlying, p.quote, p.maturity, p.strike_k, p.lower_bound_l,
      p.upper_bound_u>>

MarketKeys == {compute_market_key(p) : p \in FactoryParams}

(* format!("market-{}.{}", deploy_counter, env::current_account_id()) *)
SubAccountOfFirstDeploy(prefix, counter) == <<prefix, 1, FACTORY>>

SubAccount(prefix, counter) == <<prefix, counter, FACTORY>>

FactoryFails(rec) ==
    /\ last' = rec
    /\ calls' = {}
    /\ UNCHANGED <<factory_vars, market_vars, block_index, block_timestamp>>

assert_owner_or_guardian(caller) == caller = OWNER \/ caller = GUARDIAN

assert_owner(caller) == caller = OWNER

set_contract_codes(caller, new_market_code, new_long_token_code, new_short_token_code) ==
    LET rec == [op |-> "set_contract_codes", caller |-> caller]
    IN  IF ~assert_owner(caller)
        THEN FactoryFails(rec @@ [outcome |-> "rejected"])
        ELSE /\ market_code' = new_market_code
             /\ long_token_code' = new_long_token_code
             /\ short_token_code' = new_short_token_code
             /\ calls' = {}
             /\ last' = rec @@ [outcome |-> "ok"]
             /\ UNCHANGED <<markets, markets_by_creator, all_market_keys, paused,
                            deploy_counter, chains, oracle, fee_collector, guardian,
                            market_vars, block_index, block_timestamp>>

SetContractCodes ==
    \E caller \in {OWNER, "alice.near"}, t \in CodeTriples :
        set_contract_codes(caller, t[1], t[2], t[3])

factory_set_paused(caller, new_paused) ==
    LET rec == [op |-> "factory_set_paused", caller |-> caller]
    IN  IF ~(caller = guardian \/ caller = OWNER)
        THEN FactoryFails(rec @@ [outcome |-> "rejected"])
        ELSE /\ paused' = new_paused
             /\ calls' = {}
             /\ last' = rec @@ [outcome |-> "ok"]
             /\ UNCHANGED <<markets, markets_by_creator, all_market_keys, market_code,
                            long_token_code, short_token_code, deploy_counter, chains,
                            oracle, fee_collector, guardian, market_vars, block_index,
                            block_timestamp>>

FactorySetPaused ==
    \E caller \in {GUARDIAN, "alice.near"}, new_paused \in BOOLEAN :
        factory_set_paused(caller, new_paused)

update_oracle(caller, new_oracle) ==
    LET rec == [op |-> "update_oracle", caller |-> caller]
    IN  IF ~assert_owner(caller)
        THEN FactoryFails(rec @@ [outcome |-> "rejected"])
        ELSE /\ oracle' = new_oracle
             /\ calls' = {}
             /\ last' = rec @@ [outcome |-> "ok"]
             /\ UNCHANGED <<markets, markets_by_creator, all_market_keys, market_code,
                            long_token_code, short_token_code, paused, deploy_counter,
                            chains, fee_collector, guardian, market_vars, block_index,
                            block_timestamp>>

update_fee_collector(caller, new_fee_collector) ==
    LET rec == [op |-> "update_fee_collector", caller |-> caller]
    IN  IF ~assert_owner(caller)
        THEN FactoryFails(rec @@ [outcome |-> "rejected"])
        ELSE /\ fee_collector' = new_fee_collector
             /\ calls' = {}
             /\ last' = rec @@ [outcome |-> "ok"]
             /\ UNCHANGED <<markets, markets_by_creator, all_market_keys, market_code,
                            long_token_code, short_token_code, paused, deploy_counter,
                            chains, oracle, guardian, market_vars, block_index,
                            block_timestamp>>

update_guardian(caller, new_guardian) ==
    LET rec == [op |-> "update_guardian", caller |-> caller]
    IN  IF ~assert_owner(caller)
        THEN FactoryFails(rec @@ [outcome |-> "rejected"])
        ELSE /\ guardian' = new_guardian
             /\ calls' = {}
             /\ last' = rec @@ [outcome |-> "ok"]
             /\ UNCHANGED <<markets, markets_by_creator, all_market_keys, market_code,
                            long_token_code, short_token_code, paused, deploy_counter,
                            chains, oracle, fee_collector, market_vars, block_index,
                            block_timestamp>>

CodesConfigured ==
    market_code # <<>> /\ long_token_code # <<>>

deploy_market(creator, p, deposit) ==
    LET rec == [op |-> "deploy_market", params |-> p, deposit |-> deposit]
        market_key == compute_market_key(p)
    IN  IF \/ paused
           \/ ~CodesConfigured
           \/ ~(deposit >= MARKET_STORAGE + 2 * TOKEN_STORAGE)
           \/ market_key \in DOMAIN markets
        THEN FactoryFails(rec @@ [outcome |-> "rejected"])
        ELSE /\ deploy_counter < MaxDeploys
             /\ deploy_counter' = deploy_counter + 1
             /\ chains' = chains \cup
                    {[market_key |-> market_key,
                      market_info |->
                          [market_id |-> SubAccount("market", deploy_counter + 1),
                           long_token |-> SubAccount("long", deploy_counter + 1),
                           short_token |-> SubAccount("short", deploy_counter + 1),
                           params |-> p,
                           created_at |-> block_timestamp,
                           creator |-> creator],
                      done |-> 0,
                      failed |-> FALSE]}
             /\ calls' = {}
             /\ last' = rec @@ [outcome |-> "ok"]
             /\ UNCHANGED <<markets, markets_by_creator, all_market_keys, market_code,
                            long_token_code, short_token_code, paused, oracle,
                            fee_collector, guardian, market_vars, block_index,
                            block_timestamp>>

DeployMarket ==
    \E creator \in Users, p \in FactoryParams, deposit \in Deposits :
        deploy_market(creator, p, deposit)

(* The outcomes of creation batch number `step` of a chain: a batch can fail   *)
(* (the account exists already, the deployed code is not a contract, `new`     *)
(* panics), and the engine's `new` panics on parameters it does not accept.    *)
StepOutcomes(c, step) ==
    IF step = 3 /\ ~NewAccepts(c.market_info.params, block_timestamp)
    THEN {FALSE}
    ELSE BOOLEAN

(* One of the three creation batches of a chain runs. *)
CreationStep ==
    \E c \in chains :
        /\ c.done < 3
        /\ \E ok \in StepOutcomes(c, c.done + 1) :
            /\ chains' = (chains \ {c}) \cup
                            {[c EXCEPT !.done = @ + 1, !.failed = @ \/ ~ok]}
            /\ last' = [op |-> "creation_step", outcome |-> IF ok THEN "ok" ELSE "failed"]
        /\ calls' = {}
        /\ UNCHANGED <<markets, markets_by_creator, all_market_keys, market_code,
                       long_token_code, short_token_code, paused, deploy_counter,
                       oracle, fee_collector, guardian, market_vars, block_index,
                       block_timestamp>>

(* UnorderedSet::insert: the elements are kept in a vector in the order of their *)
(* first insertion; an element that is present is not added again.              *)
insert_always(elements, element) == Append(elements, element)

insert(elements, element) ==
    IF \E i \in 1..Len(elements) : elements[i] = element
    THEN elements
    ELSE Append(elements, element)

on_market_deployed(c) ==
    LET market_key == c.market_key
        market_info == c.market_info
        creator_markets == markets_by_creator[market_info.creator]
    IN  /\ markets' = PutPending(markets, market_key, market_info)
        /\ all_market_keys' = insert(all_market_keys, market_key)
        /\ markets_by_creator' =
               [markets_by_creator EXCEPT
                    ![market_info.creator] = Append(creator_markets, market_key)]
        /\ chains' = chains \ {c}
        /\ calls' = {}
        /\ last' = [op |-> "on_market_deployed", outcome |-> "ok",
                    market_key |-> market_key, chain_failed |-> c.failed]
        /\ UNCHANGED <<market_code, long_token_code, short_token_code, paused,
                       deploy_counter, oracle, fee_collector, guardian, market_vars,
                       block_index, block_timestamp>>

(* The callback runs when the third creation batch has finished. *)
OnMarketDeployed ==
    \E c \in chains : c.done = 3 /\ on_market_deployed(c)

get_market(market_key) ==
    IF market_key \in DOMAIN markets THEN markets[market_key] ELSE None

HasMarket(key) == key \in DOMAIN markets

get_markets_by_creator(creator) ==
    LET keys == SelectSeq(markets_by_creator[creator], HasMarket)
    IN  [i \in 1..Len(keys) |-> markets[keys[i]]]

(* keys.iter().skip(from_index).take(limit).filter_map(|key| markets.get(key)) *)
get_all_markets(from_index, limit) ==
    LET keys == all_market_keys
        upto == IF from_index + limit < Len(keys) THEN from_index + limit ELSE Len(keys)
        page == SubSeq(keys, from_index + 1, upto)
        found == SelectSeq(page, HasMarket)
    IN  [i \in 1..Len(found) |-> markets[found[i]]]

get_market_count == Len(all_market_keys)

InitFactory ==
    /\ Init
    /\ overflow_checks
    /\ params.mint_fee_bps = 30

NextFactory ==
    \/ SetContractCodes
    \/ FactorySetPaused
    \/ DeployMarket
    \/ CreationStep
    \/ OnMarketDeployed

SpecFactory == InitFactory /\ [][NextFactory]_vars

-----------------------------------------------------------------------------

Next ==
    \/ NewBlock
    \/ CreatePosition
    \/ UserTransfer
    \/ DeliverFtCall
    \/ FailFtCall
    \/ Redeem
    \/ Settle
    \/ OnPriceReceived

Spec == Init /\ [][Next]_vars

(* The engine with its guardian: pausing and unpausing, minting and settling. *)
NextPause ==
    \/ NewBlock
    \/ SetPaused
    \/ CreatePosition
    \/ UserTransfer
    \/ DeliverFtCall
    \/ FailFtCall
    \/ Settle
    \/ OnPriceReceived

SpecPause == Init /\ [][NextPause]_vars

(* A market without mint fee whose quote token has a supply near the largest *)
(* u128: deposits of the whole range of a Balance.                            *)
LargeAmounts == {1, 500, U128Max}

LargeParams ==
    {[p EXCEPT !.mint_fee_bps = bps] : p \in MarketParams, bps \in {0, 30}}

InitLarge ==
    /\ FactoryNew
    /\ overflow_checks \in BOOLEAN
    /\ block_index = 0
    /\ block_timestamp = 0
    /\ params \in {p \in LargeParams : NewAccepts(p, 0)}
    /\ state = NewState
    /\ pending_actions = EmptyMap
    /\ user_deposits = [a \in Accounts |-> 0]
    /\ price_requests = 0
    /\ ft_calls = <<>>
    /\ calls = {}
    /\ last = [op |-> "new", outcome |-> "ok"]
    /\ finalizations = 0
    /\ settle_fee_records = 0
    /\ collateral_at_settlement = None
    /\ paid_out = 0
    /\ redeems = 0
    /\ mints = 0
    /\ accounting = NoAccounting
    /\ long_balances = [a \in Accounts |-> 0]
    /\ short_balances = [a \in Accounts |-> 0]

CreateLargePosition ==
    \E caller \in Users, amount \in LargeAmounts : create_position(caller, amount)

LargeTransfer ==
    \E sender_id \in Users, amount \in LargeAmounts, msg \in Msgs :
        /\ ft_on_transfer(QUOTE, sender_id, amount, msg)
        /\ mints' <= MaxLargeMints
        /\ UNCHANGED ft_calls

NextLarge ==
    \/ NewBlock
    \/ CreateLargePosition
    \/ LargeTransfer
    \/ DeliverFtCall
    \/ FailFtCall

SpecLarge == InitLarge /\ [][NextLarge]_vars

(* The engine whose callers retry settle() and whose oracle answers: time     *)
(* passes, an accepted settle() is issued again and again, and again and      *)
(* again the price request comes back with a price.                           *)
SettleAccepted ==
    \E caller \in {"alice.near"} : settle(caller) /\ last'.outcome = "ok"

PriceReturned ==
    \E price \in Prices : on_price_received(<<"Price", price>>)

NextRetry ==
    \/ NewBlock
    \/ CreatePosition
    \/ UserTransfer
    \/ DeliverFtCall
    \/ FailFtCall
    \/ Settle
    \/ OnPriceReceived

SpecRetry ==
    /\ Init
    /\ [][NextRetry]_vars
    /\ WF_vars(NewBlock)
    /\ SF_vars(SettleAccepted)
    /\ SF_vars(PriceReturned)

-----------------------------------------------------------------------------
(* Settlement is final *)

\* C1: once settlement_price and settlement_factor are set, no later step (in
\* particular no later price continuation) changes or unsets them.
C1_SettlementNeverChanges ==
    [][state.settlement_price # None =>
          /\ state'.settlement_price = state.settlement_price
          /\ state'.settlement_factor = state.settlement_factor]_vars

\* C2: the settle fee is deducted at most once and at most one settle-fee
\* notification is sent to the fee ledger over the life of the market.
C2_SettleFeeAtMostOnce ==
    settle_fee_records <= 1

-----------------------------------------------------------------------------
(* Pending actions *)

\* C3: an accepted create_position registers its pending action under a tag no
\* other pending action has: it adds one entry to the table and overwrites none.
C3_FreshTag ==
    [][(last'.op = "create_position" /\ last'.outcome = "ok") =>
          Cardinality(DOMAIN pending_actions') = Cardinality(DOMAIN pending_actions) + 1]_vars

-----------------------------------------------------------------------------
(* Reconciliation of incoming transfers *)

Senders == Users \cup {MARKET}

\* C4: a transfer from the quote token that matches a pending Mint action (same
\* account, same amount) is absorbed: with fee = floor(amount * mint_fee_bps / 10000)
\* and net = amount - fee, total_collateral, long_supply and short_supply each grow
\* by net, net is minted on both claim ledgers for the sender, the fee ledger is
\* notified iff fee > 0, the pending action is removed and 0 is returned.
C4_MatchedMintAbsorbed ==
    [][\A s \in Senders, a \in Amounts \ {0}, m \in Msgs :
          ( /\ m \in DOMAIN pending_actions
            /\ pending_actions[m].account = s
            /\ pending_actions[m].amount = a
            /\ pending_actions[m].action_type = "Mint"
            /\ ft_on_transfer(QUOTE, s, a, m) )
          => LET fee == (a * params.mint_fee_bps) \div 10000
                 net == a - fee
             IN  /\ last'.outcome = "minted"
                 /\ last'.unused = 0
                 /\ state'.total_collateral = state.total_collateral + net
                 /\ state'.long_token_supply = state.long_token_supply + net
                 /\ state'.short_token_supply = state.short_token_supply + net
                 /\ Call(LONG_TOKEN, "mint", s, net) \in calls'
                 /\ Call(SHORT_TOKEN, "mint", s, net) \in calls'
                 /\ (fee > 0) <=> (Call(FEE_COLLECTOR, "record_fee", QUOTE, fee) \in calls')
                 /\ (fee = 0) => ~(\E c \in calls' : c.to = FEE_COLLECTOR)
                 /\ m \notin DOMAIN pending_actions']_vars

\* C5: a transfer from the quote token whose tag has no pending action, or whose
\* pending action has another account or another amount, is refunded in full and
\* changes nothing: collateral, supplies and the pending-action table stay as they
\* were and no mint or fee call is issued.
C5_MismatchRefunded ==
    [][\A s \in Senders, a \in Amounts \ {0}, m \in Msgs :
          ( /\ \/ m \notin DOMAIN pending_actions
               \/ pending_actions[m].account # s
               \/ pending_actions[m].amount # a
            /\ ft_on_transfer(QUOTE, s, a, m) )
          => /\ last'.outcome = "refunded"
             /\ last'.unused = a
             /\ state' = state
             /\ pending_actions' = pending_actions
             /\ user_deposits' = user_deposits
             /\ calls' = {}]_vars

\* A transfer of 1 was refunded although an action for 500 is pending under every tag
\* of the blocks so far (a mismatch of the amount, the account or the tag).
C5_Witness ==
    /\ last.op = "ft_on_transfer"
    /\ last.outcome = "refunded"
    /\ last.unused = 1
    /\ DOMAIN pending_actions = {action_id(i) : i \in 0..block_index}
    /\ \A m \in DOMAIN pending_actions : pending_actions[m].amount = 500

\* C6: the transfer create_position initiates is sent by the account stored in the
\* pending action, so its delivery to ft_on_transfer reconciles with that action.
C6_TransferSenderIsCaller ==
    \A i \in 1..Len(ft_calls) :
        ft_calls[i].msg \in DOMAIN pending_actions
        => pending_actions[ft_calls[i].msg].account = ft_calls[i].sender_id

\* C7: long_supply equals short_supply in every reachable state.
C7_SuppliesEqual ==
    state.long_token_supply = state.short_token_supply

\* A mint has been absorbed (both supplies are positive) and settlement has then
\* deducted its fee from the collateral.
C7_Witness ==
    /\ last.op = "on_price_received"
    /\ mints > 0
    /\ state.long_token_supply > 0
    /\ state.is_settled
    /\ state.total_collateral < state.long_token_supply

-----------------------------------------------------------------------------
(* Redemption *)

\* C8: a redeem that passes the check net_payout <= total_collateral leaves
\* total_collateral equal to its previous value minus total_payout, in that same
\* step, and total_collateral neither goes below zero nor wraps.
C8_RedeemDeductsTotalPayout ==
    [][(last'.op = "redeem" /\ "total_payout" \in DOMAIN last') =>
          /\ last'.outcome = "ok"
          /\ state'.total_collateral = state.total_collateral - last'.total_payout
          /\ state'.total_collateral >= 0]_vars

\* C9: the net payouts sent by all redeems together never exceed the
\* total_collateral the engine held right after settlement finalization.
C9_PayoutsWithinSettledCollateral ==
    collateral_at_settlement # None => paid_out <= collateral_at_settlement

-----------------------------------------------------------------------------
(* Settlement factor *)

ClampedFactor(price) ==
    LET l == params.lower_bound_l
        u == params.upper_bound_u
    IN  IF price <= l THEN 0
        ELSE IF price >= u THEN SCALE
        ELSE ((price - l) * SCALE) \div (u - l)

\* C10: finalization with price P stores f(P) = 0 for P <= L, SCALE for P >= U and
\* floor((P - L) * SCALE / (U - L)) in between, so 0 <= f(P) <= SCALE.
C10_FactorClamped ==
    [][(last'.op = "on_price_received" /\ last'.result[1] = "Price") =>
          /\ last'.outcome = "ok"
          /\ state'.settlement_factor = ClampedFactor(last'.result[2])
          /\ state'.settlement_factor >= 0
          /\ state'.settlement_factor <= SCALE]_vars

-----------------------------------------------------------------------------
(* Factory: the registry *)

RegistryFrame ==
    /\ markets' = markets
    /\ markets_by_creator' = markets_by_creator
    /\ all_market_keys' = all_market_keys
    /\ deploy_counter' = deploy_counter
    /\ chains' = chains

SameSix(p, q) ==
    /\ p.underlying = q.underlying
    /\ p.quote = q.quote
    /\ p.maturity = q.maturity
    /\ p.strike_k = q.strike_k
    /\ p.lower_bound_l = q.lower_bound_l
    /\ p.upper_bound_u = q.upper_bound_u

\* C16: once a market is registered, every deploy_market whose parameters have the
\* same underlying, quote, maturity, strike, lower and upper bound is rejected,
\* whatever its fee bps, and the registry, the indexes, the deploy counter and the
\* chains in flight stay as they were.
C16_DuplicateKeyRejected ==
    [][\A creator \in Users, p \in FactoryParams, deposit \in Deposits :
          ( /\ \E k \in DOMAIN markets : SameSix(markets[k].params, p)
            /\ deploy_market(creator, p, deposit) )
          => /\ last'.outcome = "rejected"
             /\ RegistryFrame]_vars

\* A deploy_market that met every other precondition was rejected although its
\* mint fee differs from the one of the market registered under its key.
C16_Witness ==
    /\ last.op = "deploy_market"
    /\ last.outcome = "rejected"
    /\ ~paused
    /\ CodesConfigured
    /\ last.deposit >= MARKET_STORAGE + 2 * TOKEN_STORAGE
    /\ \E k \in DOMAIN markets :
          /\ SameSix(markets[k].params, last.params)
          /\ markets[k].params.mint_fee_bps # last.params.mint_fee_bps

NoDuplicates(seq) ==
    \A i, j \in 1..Len(seq) : i # j => seq[i] # seq[j]

\* C17: whatever the interleaving of deploy_market calls and registrations, a key
\* occurs at most once in every per-creator index and get_markets_by_creator
\* returns no market twice (at most one of two chains for a key is registered).
C17_KeyRegisteredOnce ==
    \A creator \in Users :
        /\ NoDuplicates(markets_by_creator[creator])
        /\ NoDuplicates(get_markets_by_creator(creator))

\* C18: the MarketInfo registered under a key is never replaced or removed.
C18_MarketInfoNeverChanges ==
    [][\A k \in DOMAIN markets :
          k \in DOMAIN markets' /\ markets'[k] = markets[k]]_vars

\* C19: the registration step runs only for a chain whose three creation steps
\* all succeeded.
C19_RegisteredOnlyAfterThreeSuccesses ==
    last.op = "on_market_deployed" => ~last.chain_failed

\* C20: deploy_market is rejected, with the deploy counter, the registry, the
\* indexes and the chains unchanged, when the factory is paused, or the market,
\* long-ledger or short-ledger code is empty, or the deposit is below
\* MARKET_STORAGE + 2 * TOKEN_STORAGE.
C20_DeployPreconditions ==
    [][\A creator \in Users, p \in FactoryParams, deposit \in Deposits :
          ( /\ \/ paused
               \/ market_code = <<>>
               \/ long_token_code = <<>>
               \/ short_token_code = <<>>
               \/ deposit < MARKET_STORAGE + 2 * TOKEN_STORAGE
            /\ deploy_market(creator, p, deposit) )
          => /\ last'.outcome = "rejected"
             /\ RegistryFrame]_vars

-----------------------------------------------------------------------------
(* The pure functions of the engine, applied to inputs drawn from bounded    *)
(* sets: calculate_settlement_factor for the bounds of the market and prices *)
(* around them, calculate_payout for an amount and a factor in 0..SCALE.     *)

PureBounds == {<<30 * SCALE, 70 * SCALE>>, <<50 * SCALE, 50 * SCALE + 4>>}

PureParams ==
    {[underlying |-> UNDERLYING, quote |-> QUOTE, maturity |-> 1,
      strike_k |-> 50 * SCALE, lower_bound_l |-> b[1], upper_bound_u |-> b[2],
      mint_fee_bps |-> 30, settle_fee_bps |-> 50, redeem_fee_bps |-> 20] :
        b \in PureBounds}

PriceOffsets == {0, 1, 2, 3, 4, 5, 10 * SCALE, 20 * SCALE, 40 * SCALE - 1, 40 * SCALE}
PayoutAmounts == {0, 1, 3, 500, 16 * SCALE, 20 * SCALE}
Factors == {0, 1, SCALE \div 2, SCALE - 1, SCALE}

InitPure ==
    /\ FactoryNew
    /\ overflow_checks \in BOOLEAN
    /\ block_index = 0
    /\ block_timestamp = 0
    /\ params \in {p \in PureParams : NewAccepts(p, 0)}
    /\ state = NewState
    /\ pending_actions = EmptyMap
    /\ user_deposits = [a \in Accounts |-> 0]
    /\ price_requests = 0
    /\ ft_calls = <<>>
    /\ calls = {}
    /\ last = [op |-> "new", outcome |-> "ok"]
    /\ finalizations = 0
    /\ settle_fee_records = 0
    /\ collateral_at_settlement = None
    /\ paid_out = 0
    /\ redeems = 0
    /\ mints = 0
    /\ accounting = NoAccounting
    /\ long_balances = [a \in Accounts |-> 0]
    /\ short_balances = [a \in Accounts |-> 0]

ApplyFactor ==
    \E offset \in PriceOffsets :
        LET price == params.lower_bound_l + offset
        IN  /\ last' = [op |-> "calculate_settlement_factor", price |-> price,
                        factor |-> calculate_settlement_factor(price)]
            /\ UNCHANGED <<market_vars, factory_vars, block_index, block_timestamp, calls>>

ApplyPayout ==
    \E amount \in PayoutAmounts, settlement_factor \in Factors :
        /\ last' = [op |-> "calculate_payout", amount |-> amount,
                    factor |-> settlement_factor,
                    long_payout |-> calculate_payout(amount, settlement_factor, TRUE),
                    short_payout |-> calculate_payout(amount, settlement_factor, FALSE)]
        /\ UNCHANGED <<market_vars, factory_vars, block_index, block_timestamp, calls>>

NextPure ==
    \/ ApplyFactor
    \/ ApplyPayout

SpecPure == InitPure /\ [][NextPure]_vars

Interior(price) ==
    params.lower_bound_l < price /\ price < params.upper_bound_u

\* C11: for every market with L < U, the factor of a price strictly between L and
\* U is strictly between 0 and SCALE, and of two such prices the larger one has
\* the strictly larger factor.
C11_FactorStrictlyIncreasing ==
    [][(last'.op = "calculate_settlement_factor" /\ Interior(last'.price)) =>
          /\ 0 < last'.factor
          /\ last'.factor < SCALE
          /\ ( /\ last.op = "calculate_settlement_factor"
               /\ Interior(last.price)
               /\ last.price < last'.price )
             => last.factor < last'.factor]_vars

\* C12: for every amount a and every factor f in 0..SCALE, the long payout of a
\* plus the short payout of a is a.
C12_PayoutsSumToAmount ==
    last.op = "calculate_payout" =>
        last.long_payout + last.short_payout = last.amount

-----------------------------------------------------------------------------
(* Settlement requests *)

\* C13: settle() is rejected, changing nothing and issuing no price request, when
\* settlement is paused, or the market is settled, or the time is before maturity;
\* otherwise it issues exactly one price request (with its continuation) and leaves
\* is_settled, settlement_price, settlement_factor and total_collateral as they were.
C13_SettlePreconditions ==
    [][\A caller \in {"alice.near"} :
          settle(caller) =>
             IF \/ state.paused_settle
                \/ state.is_settled
                \/ block_timestamp < params.maturity
             THEN /\ last'.outcome = "rejected"
                  /\ calls' = {}
                  /\ UNCHANGED <<market_vars, block_index, block_timestamp>>
             ELSE /\ last'.outcome = "ok"
                  /\ price_requests' = price_requests + 1
                  /\ calls' = {Call(ORACLE, "get_price", UNDERLYING, 0)}
                  /\ state'.is_settled = state.is_settled
                  /\ state'.settlement_price = state.settlement_price
                  /\ state'.settlement_factor = state.settlement_factor
                  /\ state'.total_collateral = state.total_collateral]_vars

\* After maturity, with collateral and a price request in flight, a settle() was
\* rejected for the pause alone.
C13_Witness ==
    /\ last.op = "settle"
    /\ last.outcome = "rejected"
    /\ state.paused_settle
    /\ ~state.is_settled
    /\ block_timestamp >= params.maturity
    /\ state.total_collateral > 0
    /\ price_requests > 0


(* A continuation that carries no price (the call failed, its value could not  *)
(* be parsed, or the oracle has no price) changes nothing of the engine.       *)
C14_NoPriceNoOp ==
    [][(last'.op = "on_price_received" /\ last'.result[1] # "Price") =>
          /\ last'.outcome = "ok"
          /\ state' = state
          /\ calls' = {}
          /\ UNCHANGED <<pending_actions, user_deposits>>]_vars

\* C14: a price continuation without a price changes nothing (the market stays
\* unsettled, total_collateral, settlement_price and settlement_factor keep their
\* values, settle() is accepted again), and when settle() is retried and the
\* oracle returns a price again and again, the market is eventually settled.
C14_RetryEventuallySettles ==
    /\ C14_NoPriceNoOp
    /\ <>state.is_settled

-----------------------------------------------------------------------------
(* Arithmetic *)

\* C15: an addition on total_collateral, long_supply, short_supply (or a deposit)
\* in reconciliation that would exceed the largest u128 makes the call fail with
\* no state change, so no value is ever the result of wrapping: a sum that
\* wrapped is smaller than its operands, hence reconciliation never lowers
\* the collateral, a supply or a deposit, and a call that does not mint changes
\* none of them.
C15_AdditionNeverWraps ==
    [][last'.op = "ft_on_transfer" =>
          IF last'.outcome = "minted"
          THEN /\ state'.total_collateral >= state.total_collateral
               /\ state'.long_token_supply >= state.long_token_supply
               /\ state'.short_token_supply >= state.short_token_supply
               /\ \A a \in Accounts : user_deposits'[a] >= user_deposits[a]
          ELSE /\ state' = state
               /\ user_deposits' = user_deposits]_vars


(***************************************************************************)
(* Construction of the engine as a step.  The account holds the engine's   *)
(* code and no state until new is accepted; NoParams stands for the absent *)
(* state, and no method other than new runs without state.                 *)
(***************************************************************************)

NoParams ==
    [underlying |-> "", quote |-> "", maturity |-> 0, strike_k |-> 0,
     lower_bound_l |-> 0, upper_bound_u |-> 0, mint_fee_bps |-> 0,
     settle_fee_bps |-> 0, redeem_fee_bps |-> 0]

state_exists == params # NoParams

ConstructionParams ==
    [underlying : {UNDERLYING}, quote : {QUOTE}, maturity : Maturities,
     strike_k : Strikes, lower_bound_l : LowerBounds \cup {20 * SCALE},
     upper_bound_u : UpperBounds, mint_fee_bps : {30},
     settle_fee_bps : SettleFeeBps, redeem_fee_bps : RedeemFeeBps]

new(p) ==
    LET rec == [op |-> "new", params |-> p]
    IN  IF state_exists \/ ~NewAccepts(p, block_timestamp)
        THEN Fails(rec @@ [outcome |-> "rejected"])
        ELSE /\ params' = p
             /\ state' = NewState
             /\ pending_actions' = EmptyMap
             /\ user_deposits' = [a \in Accounts |-> 0]
             /\ calls' = {}
             /\ last' = rec @@ [outcome |-> "ok"]
             /\ UNCHANGED <<factory_vars, ledger_vars, accounting, overflow_checks,
                            block_index, block_timestamp, price_requests, ft_calls,
                            finalizations, settle_fee_records,
                            collateral_at_settlement, paid_out, redeems, mints>>

ConstructMarket == \E p \in ConstructionParams : new(p)

InitNew ==
    /\ FactoryNew
    /\ overflow_checks \in BOOLEAN
    /\ block_index = 0
    /\ block_timestamp = 0
    /\ params = NoParams
    /\ state = NewState
    /\ pending_actions = EmptyMap
    /\ user_deposits = [a \in Accounts |-> 0]
    /\ price_requests = 0
    /\ ft_calls = <<>>
    /\ calls = {}
    /\ last = [op |-> "deploy", outcome |-> "ok"]
    /\ finalizations = 0
    /\ settle_fee_records = 0
    /\ collateral_at_settlement = None
    /\ paid_out = 0
    /\ redeems = 0
    /\ mints = 0
    /\ accounting = NoAccounting
    /\ long_balances = [a \in Accounts |-> 0]
    /\ short_balances = [a \in Accounts |-> 0]

NextNew ==
    \/ ConstructMarket
    \/ NewBlock
    \/ state_exists /\ CreatePosition
    \/ state_exists /\ UserTransfer
    \/ state_exists /\ DeliverFtCall
    \/ state_exists /\ FailFtCall
    \/ state_exists /\ Settle
    \/ state_exists /\ OnPriceReceived

SpecNew == InitNew /\ [][NextNew]_vars

\* C21: an engine that has been constructed has lower bound < upper bound and
\* lower bound <= strike <= upper bound, and its maturity was strictly later
\* than the time of construction; a construction whose arguments violate one
\* of these conditions is rejected and leaves no state; once constructed, the
\* parameters never change.
C21_ConstructionInvariants ==
    [][ /\ params' # NoParams =>
              /\ params'.lower_bound_l < params'.upper_bound_u
              /\ params'.lower_bound_l <= params'.strike_k
              /\ params'.strike_k <= params'.upper_bound_u
        /\ (params = NoParams /\ params' # NoParams) =>
              params'.maturity > block_timestamp
        /\ params # NoParams => params' = params
        /\ (/\ last'.op = "new"
            /\ \/ ~(last'.params.lower_bound_l < last'.params.upper_bound_u)
               \/ ~(last'.params.lower_bound_l <= last'.params.strike_k)
               \/ ~(last'.params.strike_k <= last'.params.upper_bound_u)
               \/ ~(last'.params.maturity > block_timestamp))
           => /\ last'.outcome = "rejected"
              /\ UNCHANGED <<params, state, pending_actions, user_deposits>>
      ]_vars

\* An engine constructed by an accepted new has been operated up to its
\* settlement.
C21_Witness ==
    /\ params # NoParams
    /\ state.is_settled
    /\ block_timestamp >= params.maturity


\* C22: each of the three fee rates of a constructed engine is between 0
\* and 10000 basis points, so that a fee never exceeds the amount it is taken
\* from and amount - fee does not underflow.
C22_FeeRatesWithinDenominator ==
    /\ params.mint_fee_bps \in 0..BPS_DENOMINATOR
    /\ params.settle_fee_bps \in 0..BPS_DENOMINATOR
    /\ params.redeem_fee_bps \in 0..BPS_DENOMINATOR
    /\ \A amount \in Amounts :
          /\ FeeOf(amount, params.mint_fee_bps) # PANIC
          /\ FeeOf(amount, params.mint_fee_bps) <= amount


(***************************************************************************)
(* The administrative methods of the factory and of the engine, called by  *)
(* the owner, by a guardian and by users, next to the other methods of the *)
(* two contracts.                                                          *)
(***************************************************************************)

MaxAuthDeploys == 1

AuthCallers == {OWNER, GUARDIAN, "alice.near", "bob.near"}

AuthSetContractCodes ==
    \E caller \in AuthCallers, code \in Codes \ {<<>>} :
        set_contract_codes(caller, code, code, code)

AuthFactorySetPaused ==
    \E caller \in AuthCallers, new_paused \in BOOLEAN :
        factory_set_paused(caller, new_paused)

UpdateOracle ==
    \E caller \in AuthCallers, new_oracle \in {ORACLE, "oracle2.near"} :
        update_oracle(caller, new_oracle)

UpdateFeeCollector ==
    \E caller \in AuthCallers, new_fee_collector \in {FEE_COLLECTOR, "fees2.near"} :
        update_fee_collector(caller, new_fee_collector)

UpdateGuardian ==
    \E caller \in AuthCallers, new_guardian \in {GUARDIAN, "bob.near"} :
        update_guardian(caller, new_guardian)

AuthDeployMarket == DeployMarket /\ deploy_counter' <= MaxAuthDeploys

(* The factory and the engine are separate accounts and no method of one reads *)
(* or writes the state of the other, so their steps are not interleaved here:  *)
(* a behaviour exercises one contract and leaves the other as constructed.     *)
EngineAsConstructed ==
    /\ state = NewState
    /\ pending_actions = EmptyMap
    /\ ft_calls = <<>>
    /\ price_requests = 0
    /\ block_index = 0

NextAuth ==
    \/ EngineAsConstructed /\ AuthSetContractCodes
    \/ EngineAsConstructed /\ AuthFactorySetPaused
    \/ EngineAsConstructed /\ UpdateOracle
    \/ EngineAsConstructed /\ UpdateFeeCollector
    \/ EngineAsConstructed /\ UpdateGuardian
    \/ EngineAsConstructed /\ AuthDeployMarket
    \/ EngineAsConstructed /\ CreationStep
    \/ EngineAsConstructed /\ OnMarketDeployed
    \/ FactoryNew /\ NewBlock
    \/ FactoryNew /\ SetPaused
    \/ FactoryNew /\ CreatePosition
    \/ FactoryNew /\ DeliverFtCall
    \/ FactoryNew /\ Settle
    \/ FactoryNew /\ OnPriceReceived
    \/ FactoryNew /\ Redeem

SpecAuth == InitFactory /\ [][NextAuth]_vars


OwnerOnlyOps ==
    {"set_contract_codes", "update_oracle", "update_fee_collector", "update_guardian"}

\* C23: the pause flag of the factory changes only in a set_paused of the
\* factory called by its owner or its current guardian, and the two pause
\* flags of the engine only in a set_paused of the engine called by its owner
\* or its guardian; the contract codes, the oracle, the fee collector and the
\* guardian of the factory change only in set_contract_codes, update_oracle,
\* update_fee_collector and update_guardian called by the owner; any other
\* caller of one of these methods is rejected and nothing changes.
C23_AdministrationAuthorized ==
    [][ /\ paused' # paused =>
              /\ last'.op = "factory_set_paused"
              /\ last'.caller = OWNER \/ last'.caller = guardian
        /\ (\/ state'.paused_mint # state.paused_mint
            \/ state'.paused_settle # state.paused_settle) =>
              /\ last'.op = "set_paused"
              /\ last'.caller = OWNER \/ last'.caller = GUARDIAN
        /\ <<market_code, long_token_code, short_token_code>>'
              # <<market_code, long_token_code, short_token_code>> =>
              last'.op = "set_contract_codes" /\ last'.caller = OWNER
        /\ oracle' # oracle => last'.op = "update_oracle" /\ last'.caller = OWNER
        /\ fee_collector' # fee_collector =>
              last'.op = "update_fee_collector" /\ last'.caller = OWNER
        /\ guardian' # guardian => last'.op = "update_guardian" /\ last'.caller = OWNER
        /\ (\/ last'.op \in OwnerOnlyOps /\ last'.caller # OWNER
            \/ last'.op = "factory_set_paused" /\ last'.caller \notin {OWNER, guardian}
            \/ last'.op = "set_paused" /\ last'.caller \notin {OWNER, GUARDIAN}) =>
              /\ last'.outcome = "rejected"
              /\ UNCHANGED <<factory_vars, market_vars>>
      ]_vars

\* The owner has replaced the guardian of the factory, and the new guardian
\* has paused the factory.
C23_Witness ==
    /\ guardian = "bob.near"
    /\ paused
    /\ last.op = "factory_set_paused"
    /\ last.caller = "bob.near"
    /\ last.outcome = "ok"


(* The numbers of the account identifiers the factory has handed out and that *)
(* are still on record, in a chain or in the registry.                        *)
IssuedNumbers ==
    {c.market_info.market_id[2] : c \in chains}
        \cup {markets[k].market_id[2] : k \in DOMAIN markets}

\* C24: an accepted deploy_market increases the deploy counter by exactly one
\* and derives its market, long-ledger and short-ledger identifiers from the
\* increased counter; no other step changes the counter, so it never decreases
\* or repeats; every identifier handed out so far carries a number at most the
\* counter, so an accepted deploy_market (a retry after a failed chain
\* included) never gets an identifier that was handed out before.
C24_FreshIdentifiers ==
    [][ /\ deploy_counter' >= deploy_counter
        /\ \A n \in IssuedNumbers : n <= deploy_counter
        /\ IF last'.op = "deploy_market" /\ last'.outcome = "ok"
           THEN /\ deploy_counter' = deploy_counter + 1
                /\ \E c \in chains' :
                      /\ c.done = 0
                      /\ c.market_info.params = last'.params
                      /\ c.market_info.market_id = <<"market", deploy_counter', FACTORY>>
                      /\ c.market_info.long_token = <<"long", deploy_counter', FACTORY>>
                      /\ c.market_info.short_token = <<"short", deploy_counter', FACTORY>>
                /\ \A c \in chains' :
                      c.market_info.market_id[2] = deploy_counter' => c \notin chains
           ELSE deploy_counter' = deploy_counter
      ]_vars

\* A deployment is retried while the failed chain of the first attempt for the
\* same key has not reached its callback: the retry is accepted as the second
\* deployment.
C24_Witness ==
    /\ last.op = "deploy_market"
    /\ last.outcome = "ok"
    /\ deploy_counter = 2
    /\ \E c \in chains :
          /\ c.failed
          /\ c.market_info.market_id = <<"market", 1, FACTORY>>
          /\ SameSix(c.market_info.params, last.params)


\* C25: a create_position leaves total_collateral, the two supplies, the
\* settlement fields, the deposits per user and the claim ledgers as they
\* were and writes the pending-action table only; collateral and supplies
\* grow only in a reconciliation (ft_on_transfer) that absorbs a deposit; a
\* create_position called while minting is paused, after settlement or with
\* amount 0 is rejected and changes nothing, the pending-action table and the
\* transfers requested from the quote token included.
C25_CreatePositionFrame ==
    [][ /\ last'.op = "create_position" =>
              UNCHANGED <<state, user_deposits, params, ledger_vars, accounting,
                          collateral_at_settlement, mints>>
        /\ (\/ state'.total_collateral > state.total_collateral
            \/ state'.long_token_supply > state.long_token_supply
            \/ state'.short_token_supply > state.short_token_supply) =>
              last'.op = "ft_on_transfer" /\ last'.outcome = "minted"
        /\ \A amount \in Amounts :
              (/\ create_position("alice.near", amount)
               /\ state.paused_mint \/ state.is_settled \/ amount = 0) =>
                  /\ last'.outcome = "rejected"
                  /\ UNCHANGED <<market_vars, ft_calls>>
      ]_vars

\* create_position has been rejected in a settled market that holds
\* collateral.
C25_Witness ==
    /\ last.op = "create_position"
    /\ last.outcome = "rejected"
    /\ state.is_settled
    /\ ~state.paused_mint
    /\ state.total_collateral > 0


\* C26: in every state of the factory, get_market_count is the number of
\* keys that have a MarketInfo in the registry; every key of the all-markets
\* index and of every per-creator list has a MarketInfo; every registered
\* market is in the list of its creator; and get_all_markets(0, n) with n at
\* least the count returns every registered market exactly once.
C26_RegistryStructuresAgree ==
    /\ get_market_count = Cardinality(DOMAIN markets)
    /\ \A i \in 1..Len(all_market_keys) : all_market_keys[i] \in DOMAIN markets
    /\ \A creator \in Users :
          \A i \in 1..Len(markets_by_creator[creator]) :
              markets_by_creator[creator][i] \in DOMAIN markets
    /\ \A key \in DOMAIN markets :
          \E i \in 1..Len(markets_by_creator[markets[key].creator]) :
              markets_by_creator[markets[key].creator][i] = key
    /\ \A n \in get_market_count..(get_market_count + 1) :
          LET listing == get_all_markets(0, n)
          IN  /\ Len(listing) = Cardinality(DOMAIN markets)
              /\ \A key \in DOMAIN markets :
                    Cardinality({i \in 1..Len(listing) : listing[i] = markets[key]}) = 1

\* The callbacks of two chains for the same key have both run: the key is in
\* two per-creator entries and the count is 1.
C26_Witness ==
    /\ last.op = "on_market_deployed"
    /\ get_market_count = 1
    /\ Len(get_all_markets(0, 1)) = 1
    /\ Len(markets_by_creator["alice.near"]) + Len(markets_by_creator["bob.near"]) = 2


\* C27: once the market is settled, total_collateral, the long supply and
\* the short supply never increase: a deposit whose pending mint was
\* registered before settlement and whose transfer arrives after the
\* settlement is not absorbed, and no claims are minted.
C27_NoMintAfterSettlement ==
    [][ state.is_settled =>
          /\ state'.total_collateral <= state.total_collateral
          /\ state'.long_token_supply <= state.long_token_supply
          /\ state'.short_token_supply <= state.short_token_supply
          /\ \A a \in Accounts :
                /\ long_balances'[a] <= long_balances[a]
                /\ short_balances'[a] <= short_balances[a]
      ]_vars


(***************************************************************************)
(* The engine with redemptions of the whole outstanding supply only.       *)
(***************************************************************************)

RedeemAll ==
    \E account \in Users :
        redeem(account, state.long_token_supply, state.short_token_supply)

NextRedeemAll ==
    \/ NewBlock
    \/ CreatePosition
    \/ UserTransfer
    \/ DeliverFtCall
    \/ FailFtCall
    \/ Settle
    \/ OnPriceReceived
    \/ RedeemAll

SpecRedeemAll == Init /\ [][NextRedeemAll]_vars

\* C28: in a settled market, a redeem of the entire outstanding long supply
\* and short supply is accepted: it is not rejected for insufficient
\* collateral and the deduction from total_collateral does not underflow.
C28_FullRedemptionAccepted ==
    [][ (/\ last'.op = "redeem"
         /\ state.is_settled
         /\ state.long_token_supply > 0
         /\ redeems < MaxRedeems)
        => /\ last'.outcome = "ok"
           /\ state'.total_collateral >= 0
      ]_vars


\* C29: a redeem pays only against claims that are burned: when the account
\* holds fewer long or short claims than the amounts it passes, so that a
\* burn fails on the claim ledger, total_collateral is not reduced and no
\* payout of a positive amount is transferred.
C29_RedeemOnlyAgainstBurnedClaims ==
    [][ \A account \in Users :
          (/\ redeem(account, state.long_token_supply, state.short_token_supply)
           /\ \/ long_balances[account] < state.long_token_supply
              \/ short_balances[account] < state.short_token_supply)
          => /\ state'.total_collateral = state.total_collateral
             /\ \A c \in calls' : c.method = "ft_transfer" => c.amount = 0
      ]_vars


\* C30: in every state, the sum of the deposit amounts absorbed by the
\* reconciliation equals total_collateral plus the mint fees notified plus
\* the settle fees deducted plus the total payouts deducted by the accepted
\* redeems.
C30_CollateralConserved ==
    accounting.deposited =
        state.total_collateral + accounting.mint_fees + accounting.settle_fees
            + accounting.payouts


\* C31: a pending action is consumed at most once.  A reconciliation that
\* absorbs a transfer with tag t finds t in the pending-action table and
\* removes it; a transfer whose tag is not in the table is refunded in full
\* and changes no state; a tag enters the table only in an accepted
\* create_position; and the number of mints changes only in an absorbing
\* reconciliation, so one create_position leads to at most one mint.
C31_PendingConsumedOnce ==
    [][ /\ \A sender_id \in Users \cup {MARKET}, amount \in Amounts, msg \in Msgs :
              (last'.op = "ft_on_transfer"
                  /\ ft_on_transfer(QUOTE, sender_id, amount, msg)) =>
                  /\ last'.outcome = "minted" =>
                        /\ msg \in DOMAIN pending_actions
                        /\ msg \notin DOMAIN pending_actions'
                        /\ mints' = mints + 1
                  /\ msg \notin DOMAIN pending_actions =>
                        /\ last'.outcome = "refunded"
                        /\ last'.unused = amount
                        /\ UNCHANGED <<state, pending_actions, user_deposits, mints,
                                       accounting, ledger_vars>>
        /\ \A t \in DOMAIN pending_actions' \ DOMAIN pending_actions :
              /\ last'.op = "create_position"
              /\ last'.outcome = "ok"
              /\ t = action_id(block_index)
        /\ mints' # mints =>
              /\ last'.op = "ft_on_transfer"
              /\ last'.outcome = "minted"
              /\ Cardinality(DOMAIN pending_actions') = Cardinality(DOMAIN pending_actions) - 1
      ]_vars

\* A deposit of 500 has been absorbed and its pending action removed; a
\* later transfer of 500 finds no pending action and is refunded in full.
C31_Witness ==
    /\ mints = 1
    /\ accounting.deposited = 500
    /\ DOMAIN pending_actions = {}
    /\ last.op = "ft_on_transfer"
    /\ last.outcome = "refunded"
    /\ last.unused = 500


\* C32: the supplies recorded by the engine follow the claim ledgers: when
\* the long (short) supply of the engine equals the total supply of the long
\* (short) ledger and an accepted redeem burns claims on that ledger, the
\* engine's supply decreases by the burned amount, so that the two are equal
\* again once the burn has run.
C32_SuppliesFollowLedgers ==
    [][ (last'.op = "redeem" /\ last'.outcome = "ok") =>
          /\ (/\ state.long_token_supply = total_supply(long_balances)
              /\ long_balances' # long_balances)
             => state'.long_token_supply = total_supply(long_balances')
          /\ (/\ state.short_token_supply = total_supply(short_balances)
              /\ short_balances' # short_balances)
             => state'.short_token_supply = total_supply(short_balances')
      ]_vars

=============================================================================
